---- MODULE Spec2Model ----
(***************************************************************************)
(* Model of the research loop of Research_Agent_with_MCP-Ollama:          *)
(* src/main.py (research_loop), src/agents/critic.py, src/agents/          *)
(* refiner.py, src/utils/parser.py, src/core/types.py and                  *)
(* src/core/model_manager.py.                                              *)
(*                                                                         *)
(* Text is a sequence of tokens (each token a run of characters that the   *)
(* parsers of the program treat as a unit).  Python values are records     *)
(* [t, n, s, items]: t the type tag, n an integer payload, s a token       *)
(* sequence payload, items the children (list elements, or the keys and    *)
(* values of a dict alternating).  Averages and thresholds are kept in     *)
(* hundredths (2.33 is 233).                                               *)
(***************************************************************************)
EXTENDS Integers, Sequences, FiniteSets, TLC

\* ------------------------------------------------------------------------
\* Python values
\* ------------------------------------------------------------------------
PNone == [t |-> "none", n |-> 0, s |-> <<>>, items |-> <<>>]

PStr(toks) == [t |-> "str", n |-> 0, s |-> toks, items |-> <<>>]

PInt(k) == [t |-> "int", n |-> k, s |-> <<>>, items |-> <<>>]

PBool(b) == [t |-> "bool", n |-> IF b THEN 1 ELSE 0, s |-> <<>>, items |-> <<>>]

\* a finite float: n is the number without its decimal point (3.7 is 37),
\* s the digits after the point
PFloat(k, frac) == [t |-> "float", n |-> k, s |-> frac, items |-> <<>>]

\* float('inf') (n = 1), float('-inf') (n = -1)
PInf(sign) == [t |-> "inf", n |-> sign, s |-> <<>>, items |-> <<>>]

PNaN == [t |-> "nan", n |-> 0, s |-> <<>>, items |-> <<>>]

PList(vs) == [t |-> "list", n |-> 0, s |-> <<>>, items |-> vs]

\* kvs alternates keys (PStr) and values, in insertion order
PDict(kvs) == [t |-> "dict", n |-> 0, s |-> <<>>, items |-> kvs]

Pow10(k) == IF k = 0 THEN 1 ELSE IF k = 1 THEN 10 ELSE IF k = 2 THEN 100 ELSE 1000

Abs(k) == IF k < 0 THEN -k ELSE k

\* Python truthiness (bool(v))
Truthy(v) ==
    CASE v.t = "none" -> FALSE
      [] v.t = "str" -> v.s # <<>>
      [] v.t \in {"int", "bool", "float"} -> v.n # 0
      [] v.t \in {"list", "dict"} -> v.items # <<>>
      [] OTHER -> TRUE

\* isinstance(v, dict), isinstance(v, list), isinstance(v, str)
IsDict(v) == v.t = "dict"

IsList(v) == v.t = "list"

IsStr(v) == v.t = "str"

\* v[:k] succeeds on str and list
Subscriptable(v) == v.t \in {"str", "list"}

RECURSIVE LastKeyIndex(_, _, _)
\* index in kvs of the value of the last pair whose key is k, 0 if none
LastKeyIndex(kvs, k, i) ==
    IF i < 2 THEN 0
    ELSE IF kvs[i - 1].s = k THEN i
    ELSE LastKeyIndex(kvs, k, i - 2)

HasKey(d, k) == LastKeyIndex(d.items, k, Len(d.items)) # 0

\* dict.get(k, default); a repeated key keeps its last value
DictGet(d, k, default) ==
    LET i == LastKeyIndex(d.items, k, Len(d.items))
    IN IF i = 0 THEN default ELSE d.items[i]

\* ------------------------------------------------------------------------
\* Tokens
\* ------------------------------------------------------------------------
\* the run of three backquotes that opens and closes a fenced block
FENCE == "<fence>"

QUOTE == "\""

Whitespace == {" ", "\n"}

Digits == {"0", "1", "2", "3", "4", "5", "6", "7", "8", "9"}

DigitVal(d) ==
    CASE d = "0" -> 0 [] d = "1" -> 1 [] d = "2" -> 2 [] d = "3" -> 3
      [] d = "4" -> 4 [] d = "5" -> 5 [] d = "6" -> 6 [] d = "7" -> 7
      [] d = "8" -> 8 [] d = "9" -> 9

\* str.lower() on one token
LowerTok(tok) ==
    CASE tok = "Novelty" -> "novelty"
      [] tok = "Feasibility" -> "feasibility"
      [] tok = "Specificity" -> "specificity"
      [] tok = "Impact" -> "impact"
      [] tok = "Score" -> "score"
      [] OTHER -> tok

\* text.lower()
Lower(text) == [i \in 1..Len(text) |-> LowerTok(text[i])]

\* text.find(tok) and text.rfind(tok), 1-based, 0 when absent
Find(text, tok) ==
    IF \E i \in 1..Len(text) : text[i] = tok
    THEN CHOOSE i \in 1..Len(text) : text[i] = tok /\ \A j \in 1..(i - 1) : text[j] # tok
    ELSE 0

RFind(text, tok) ==
    IF \E i \in 1..Len(text) : text[i] = tok
    THEN CHOOSE i \in 1..Len(text) : text[i] = tok /\ \A j \in (i + 1)..Len(text) : text[j] # tok
    ELSE 0

\* first index >= i that holds tok, 0 when absent
FindFrom(text, tok, i) ==
    IF \E j \in i..Len(text) : text[j] = tok
    THEN CHOOSE j \in i..Len(text) : text[j] = tok /\ \A k \in i..(j - 1) : text[k] # tok
    ELSE 0

\* first index >= i that is not whitespace (Len + 1 when there is none)
SkipWs(text, i) ==
    IF \E j \in i..Len(text) : text[j] \notin Whitespace
    THEN CHOOSE j \in i..Len(text) : text[j] \notin Whitespace /\ \A k \in i..(j - 1) : text[k] \in Whitespace
    ELSE Len(text) + 1

\* str.strip()
Strip(text) ==
    LET a == SkipWs(text, 1)
    IN IF a > Len(text) THEN <<>>
       ELSE LET b == CHOOSE j \in a..Len(text) :
                        text[j] \notin Whitespace /\ \A k \in (j + 1)..Len(text) : text[k] \in Whitespace
            IN SubSeq(text, a, b)

\* text[:k]
Prefix(text, k) == SubSeq(text, 1, IF Len(text) < k THEN Len(text) ELSE k)

\* ------------------------------------------------------------------------
\* json.loads
\* ------------------------------------------------------------------------
Fail == [ok |-> FALSE, v |-> PNone, i |-> 0]

Ok(v, i) == [ok |-> TRUE, v |-> v, i |-> i]

\* index after the maximal run of digits starting at i
DigitsEnd(text, i) ==
    IF \E j \in i..Len(text) : text[j] \notin Digits
    THEN CHOOSE j \in i..Len(text) : text[j] \notin Digits /\ \A k \in i..(j - 1) : text[k] \in Digits
    ELSE Len(text) + 1

RECURSIVE DigitsVal(_)
DigitsVal(ds) ==
    IF ds = <<>> THEN 0
    ELSE 10 * DigitsVal(SubSeq(ds, 1, Len(ds) - 1)) + DigitVal(ds[Len(ds)])

\* NUMBER_RE of the json scanner at index i: optional minus, then 0 or a
\* nonzero digit and digits, then optionally a point and digits
ParseNumber(text, i) ==
    LET neg == text[i] = "-"
        a == IF neg THEN i + 1 ELSE i
    IN IF a > Len(text) \/ text[a] \notin Digits THEN Fail
       ELSE LET b == IF text[a] = "0" THEN a + 1 ELSE DigitsEnd(text, a)
                whole == SubSeq(text, a, b - 1)
                hasFrac == b + 1 <= Len(text) /\ text[b] = "." /\ text[b + 1] \in Digits
                c == IF hasFrac THEN DigitsEnd(text, b + 1) ELSE b
                frac == IF hasFrac THEN SubSeq(text, b + 1, c - 1) ELSE <<>>
                mag == DigitsVal(whole \o frac)
                val == IF neg THEN -mag ELSE mag
            IN IF hasFrac THEN Ok(PFloat(val, frac), c) ELSE Ok(PInt(val), b)

\* a string literal may not hold a control character (strict mode)
HasControl(text, a, b) == \E k \in a..b : text[k] = "\n"

RECURSIVE ParseValue(_, _)
RECURSIVE ParseMembers(_, _, _)
RECURSIVE ParseElements(_, _, _)

\* scanner: one JSON value starting at index i (no leading whitespace)
ParseValue(text, i) ==
    IF i > Len(text) THEN Fail
    ELSE CASE text[i] = QUOTE ->
                 LET j == FindFrom(text, QUOTE, i + 1)
                 IN IF j = 0 \/ HasControl(text, i + 1, j - 1) THEN Fail
                    ELSE Ok(PStr(SubSeq(text, i + 1, j - 1)), j + 1)
           [] text[i] = "{" ->
                 LET j == SkipWs(text, i + 1)
                 IN IF j <= Len(text) /\ text[j] = "}" THEN Ok(PDict(<<>>), j + 1)
                    ELSE ParseMembers(text, j, <<>>)
           [] text[i] = "[" ->
                 LET j == SkipWs(text, i + 1)
                 IN IF j <= Len(text) /\ text[j] = "]" THEN Ok(PList(<<>>), j + 1)
                    ELSE ParseElements(text, j, <<>>)
           [] text[i] = "null" -> Ok(PNone, i + 1)
           [] text[i] = "true" -> Ok(PBool(TRUE), i + 1)
           [] text[i] = "false" -> Ok(PBool(FALSE), i + 1)
           [] text[i] = "NaN" -> Ok(PNaN, i + 1)
           [] text[i] = "Infinity" -> Ok(PInf(1), i + 1)
           [] text[i] = "-" /\ i + 1 <= Len(text) /\ text[i + 1] = "Infinity" -> Ok(PInf(-1), i + 2)
           [] OTHER -> ParseNumber(text, i)

\* JSONObject: "key" : value pairs from index i (at the first key)
ParseMembers(text, i, acc) ==
    IF i > Len(text) \/ text[i] # QUOTE THEN Fail
    ELSE LET j == FindFrom(text, QUOTE, i + 1)
         IN IF j = 0 \/ HasControl(text, i + 1, j - 1) THEN Fail
            ELSE LET key == PStr(SubSeq(text, i + 1, j - 1))
                     c == SkipWs(text, j + 1)
                 IN IF c > Len(text) \/ text[c] # ":" THEN Fail
                    ELSE LET r == ParseValue(text, SkipWs(text, c + 1))
                         IN IF ~r.ok THEN Fail
                            ELSE LET e == SkipWs(text, r.i)
                                     acc2 == acc \o <<key, r.v>>
                                 IN IF e > Len(text) THEN Fail
                                    ELSE IF text[e] = "}" THEN Ok(PDict(acc2), e + 1)
                                    ELSE IF text[e] = "," THEN ParseMembers(text, SkipWs(text, e + 1), acc2)
                                    ELSE Fail

\* JSONArray: values from index i (at the first value)
ParseElements(text, i, acc) ==
    LET r == ParseValue(text, i)
    IN IF ~r.ok THEN Fail
       ELSE LET e == SkipWs(text, r.i)
                acc2 == Append(acc, r.v)
            IN IF e > Len(text) THEN Fail
               ELSE IF text[e] = "]" THEN Ok(PList(acc2), e + 1)
               ELSE IF text[e] = "," THEN ParseElements(text, SkipWs(text, e + 1), acc2)
               ELSE Fail

\* after the value only whitespace may follow ("Extra data" otherwise)
WholeText(text, r) == IF r.ok /\ SkipWs(text, r.i) > Len(text) THEN r ELSE Fail

\* json.loads(text): [ok, v]; ok = FALSE stands for JSONDecodeError
json_loads(text) == WholeText(text, ParseValue(text, SkipWs(text, 1)))

\* ------------------------------------------------------------------------
\* utils/parser.py
\* ------------------------------------------------------------------------
\* re.search of FENCE (json)? whitespace* (lazy anything) FENCE with re.DOTALL:
\* [found, inner]
FenceMatch(text) ==
    LET a == Find(text, FENCE)
        b == IF a # 0 /\ a + 1 <= Len(text) /\ text[a + 1] = "json" THEN a + 2 ELSE a + 1
        c == IF a = 0 THEN 0 ELSE SkipWs(text, b)
        d == IF a = 0 THEN 0 ELSE FindFrom(text, FENCE, c)
    IN IF a = 0 \/ d = 0 THEN [found |-> FALSE, inner |-> <<>>]
       ELSE [found |-> TRUE, inner |-> SubSeq(text, c, d - 1)]

\* "return json.loads(json_str)" inside the try of extract_json: the value,
\* or None from the except clause when json.loads raises JSONDecodeError
ValueOrNone(r) == IF r.ok THEN r.v ELSE PNone

\* as SliceOrWhole, with the test of line 26 dropped: "{" is preferred to "["
SliceOrWholeDictFirst(text) ==
    LET list_start == Find(text, "[")
        dict_start == Find(text, "{")
        useList == dict_start = 0 /\ list_start # 0
        start_idx == IF useList THEN list_start ELSE dict_start
        end_idx == IF start_idx = 0 THEN 0 ELSE RFind(text, IF useList THEN "]" ELSE "}")
    IN IF start_idx # 0 /\ end_idx # 0 /\ end_idx > start_idx
       THEN SubSeq(text, start_idx, end_idx)
       ELSE text

\* steps 2 and 3 of extract_json (parser.py 18-40): the text handed to
\* json.loads when no fenced block is found
SliceOrWhole(text) ==
    LET list_start == Find(text, "[")
        dict_start == Find(text, "{")
        useList == list_start # 0 /\ (dict_start = 0 \/ list_start < dict_start)
        start_idx == IF useList THEN list_start ELSE dict_start
        end_idx == IF start_idx = 0 THEN 0 ELSE RFind(text, IF useList THEN "]" ELSE "}")
    IN IF start_idx # 0 /\ end_idx # 0 /\ end_idx > start_idx
       THEN SubSeq(text, start_idx, end_idx)
       ELSE text

\* as JsonStr, with step 1 (lines 12-16) after step 2
JsonStrSliceFirst(text, m) ==
    IF SliceOrWhole(text) # text THEN SliceOrWhole(text)
    ELSE IF m.found THEN Strip(m.inner) ELSE text

\* the json_str extract_json hands to json.loads: every path through the try
\* ends in one "return json.loads(...)"
JsonStr(text, m) == IF m.found THEN Strip(m.inner) ELSE SliceOrWhole(text)

extract_json(text) == ValueOrNone(json_loads(JsonStr(text, FenceMatch(text))))

\* ------------------------------------------------------------------------
\* str() and repr() of a Python value, as tokens
\* ------------------------------------------------------------------------
DigitTok(k) ==
    CASE k = 0 -> "0" [] k = 1 -> "1" [] k = 2 -> "2" [] k = 3 -> "3"
      [] k = 4 -> "4" [] k = 5 -> "5" [] k = 6 -> "6" [] k = 7 -> "7"
      [] k = 8 -> "8" [] k = 9 -> "9"

RECURSIVE NatToks(_)
NatToks(k) == IF k < 10 THEN <<DigitTok(k)>> ELSE Append(NatToks(k \div 10), DigitTok(k % 10))

\* str(k) of an int
IntToks(k) == IF k < 0 THEN <<"-">> \o NatToks(-k) ELSE NatToks(k)

RECURSIVE DropZeros(_)
\* digits after the point without trailing zeros, at least one digit
DropZeros(frac) ==
    IF Len(frac) > 1 /\ frac[Len(frac)] = "0" THEN DropZeros(SubSeq(frac, 1, Len(frac) - 1))
    ELSE frac

\* repr of a finite float
FloatToks(v) ==
    LET k == Len(v.s)
        whole == Abs(v.n) \div Pow10(k)
    IN (IF v.n < 0 THEN <<"-">> ELSE <<>>) \o NatToks(whole) \o <<".">> \o DropZeros(v.s)

RECURSIVE Repr(_)
RECURSIVE ReprItems(_, _, _)
Repr(v) ==
    CASE v.t = "none" -> <<"None">>
      [] v.t = "str" -> <<"'">> \o v.s \o <<"'">>
      [] v.t = "int" -> IntToks(v.n)
      [] v.t = "bool" -> IF v.n = 1 THEN <<"True">> ELSE <<"False">>
      [] v.t = "float" -> FloatToks(v)
      [] v.t = "inf" -> IF v.n < 0 THEN <<"-", "inf">> ELSE <<"inf">>
      [] v.t = "nan" -> <<"nan">>
      [] v.t = "list" -> <<"[">> \o ReprItems(v.items, 1, FALSE) \o <<"]">>
      [] v.t = "dict" -> <<"{">> \o ReprItems(v.items, 1, TRUE) \o <<"}">>

\* the items from index i on, separated by ", " (and ": " after a dict key)
ReprItems(items, i, isDict) ==
    IF i > Len(items) THEN <<>>
    ELSE Repr(items[i])
         \o (IF i = Len(items) THEN <<>>
             ELSE IF isDict /\ i % 2 = 1 THEN <<":", " ">>
             ELSE <<",", " ">>)
         \o ReprItems(items, i + 1, isDict)

\* str(v), what an f-string puts in place of {v}
Str(v) == IF v.t = "str" THEN v.s ELSE Repr(v)

RECURSIVE Join(_, _)
\* sep.join(parts)
Join(sep, parts) ==
    IF parts = <<>> THEN <<>>
    ELSE IF Len(parts) = 1 THEN parts[1]
    ELSE parts[1] \o sep \o Join(sep, Tail(parts))

\* ------------------------------------------------------------------------
\* core/types.py
\* ------------------------------------------------------------------------
CritiqueMetrics(nov, fea, spe, imp, avg, feedback, raw) ==
    [novelty_score |-> nov, feasibility_score |-> fea, specificity_score |-> spe,
     impact_score |-> imp, average_score |-> avg, feedback_text |-> feedback,
     raw_response |-> raw]

Scores(c) == <<c.novelty_score, c.feasibility_score, c.specificity_score, c.impact_score>>

\* [s for s in scores if s > 0]
ValidScores(scores) == SelectSeq(scores, LAMBDA s : s > 0)

RECURSIVE Sum(_)
Sum(seq) == IF seq = <<>> THEN 0 ELSE seq[1] + Sum(Tail(seq))

\* CritiqueMetrics.compute_average: the exact mean as a fraction num/den
\* (0/1 when no score is > 0)
compute_average(c) ==
    LET valid_scores == ValidScores(Scores(c))
    IN IF valid_scores = <<>> THEN [num |-> 0, den |-> 1]
       ELSE [num |-> Sum(valid_scores), den |-> Len(valid_scores)]

\* round(num / den, 2) in hundredths, for num >= 0.  With den in 1..4 the
\* quotient 100 * num / den is never halfway between two integers unless
\* it is an integer, so rounding to nearest needs no tie rule.
Round2(num, den) == (200 * num + den) \div (2 * den)

\* as RoundedAverage, dividing by the number of all scores
RoundedAverageOfAll(scores) == Round2(Sum(ValidScores(scores)), Len(scores))

\* sum(valid_scores) / len(valid_scores) if valid_scores else 0.0, then
\* round(average, 2)
RoundedAverage(scores) ==
    LET valid_scores == ValidScores(scores)
    IN IF valid_scores = <<>> THEN 0 ELSE Round2(Sum(valid_scores), Len(valid_scores))

\* ------------------------------------------------------------------------
\* agents/critic.py
\* ------------------------------------------------------------------------
\* int(str): surrounding whitespace, an optional sign, then digits only
StrIsInt(toks) ==
    LET u == Strip(toks)
        d == IF u # <<>> /\ u[1] \in {"-", "+"} THEN Tail(u) ELSE u
    IN d # <<>> /\ \A i \in 1..Len(d) : d[i] \in Digits

StrIntVal(toks) ==
    LET u == Strip(toks)
    IN IF u[1] = "-" THEN -DigitsVal(Tail(u))
       ELSE IF u[1] = "+" THEN DigitsVal(Tail(u))
       ELSE DigitsVal(u)

\* int(value) raises OverflowError, which _safe_int does not catch
SafeIntRaises(value) == value.t = "inf"

\* CriticAgent._safe_int where it returns: int(value), or 0 on ValueError
\* (non-numeric str, NaN) and TypeError (None, list, dict)
safe_int(value) ==
    CASE value.t \in {"int", "bool"} -> value.n
      [] value.t = "float" ->
            LET q == Abs(value.n) \div Pow10(Len(value.s))
            IN IF value.n < 0 THEN -q ELSE q
      [] value.t = "str" /\ StrIsInt(value.s) -> StrIntVal(value.s)
      [] OTHER -> 0

Seps == Whitespace \cup {":"}

\* first index >= i whose token is not in class (Len + 1 when none)
RunEnd(text, i, class) ==
    IF \E j \in i..Len(text) : text[j] \notin class
    THEN CHOOSE j \in i..Len(text) : text[j] \notin class /\ \A k \in i..(j - 1) : text[k] \in class
    ELSE Len(text) + 1

\* keyword, one or more of colon and whitespace, one digit: index of the digit
Pattern1At(text, keyword, p) ==
    LET q == RunEnd(text, p + 1, Seps)
    IN IF text[p] = keyword /\ q > p + 1 /\ q <= Len(text) /\ text[q] \in Digits THEN q ELSE 0

\* keyword, whitespace, "score", one or more of colon and whitespace, one digit
Pattern2At(text, keyword, p) ==
    LET a == RunEnd(text, p + 1, Whitespace)
        b == RunEnd(text, a + 1, Seps)
    IN IF text[p] = keyword /\ a > p + 1 /\ a <= Len(text) /\ text[a] = "score"
          /\ b > a + 1 /\ b <= Len(text) /\ text[b] \in Digits
       THEN b ELSE 0

\* re.search: the digit captured by the leftmost match, -1 without a match
Search(text, keyword, pattern) ==
    LET At(p) == IF pattern = 1 THEN Pattern1At(text, keyword, p) ELSE Pattern2At(text, keyword, p)
        hits == {p \in 1..Len(text) : At(p) # 0}
    IN IF hits = {} THEN -1
       ELSE LET p == CHOOSE x \in hits : \A y \in hits : x <= y
            IN DigitVal(text[At(p)])

RECURSIVE FindScoreFromAnyDigit(_, _, _, _)
\* as FindScoreFrom, without the range test of line 154
FindScoreFromAnyDigit(text_lower, keywords, k, pat) ==
    IF k > Len(keywords) THEN 0
    ELSE LET score == Search(text_lower, keywords[k], pat)
         IN IF score >= 0 THEN score
            ELSE IF pat = 1 THEN FindScoreFromAnyDigit(text_lower, keywords, k, 2)
            ELSE FindScoreFromAnyDigit(text_lower, keywords, k + 1, 1)

RECURSIVE FindScoreFrom(_, _, _, _)
\* the loops of _find_score from keyword k, pattern pat on
FindScoreFrom(text_lower, keywords, k, pat) ==
    IF k > Len(keywords) THEN 0
    ELSE LET score == Search(text_lower, keywords[k], pat)
         IN IF 1 <= score /\ score <= 5 THEN score
            ELSE IF pat = 1 THEN FindScoreFrom(text_lower, keywords, k, 2)
            ELSE FindScoreFrom(text_lower, keywords, k + 1, 1)

find_score(text, keywords) == FindScoreFrom(Lower(text), keywords, 1, 1)

\* text[:2000], feedback_text of the text fallback, counted in tokens
FeedbackLimit == 2000

\* critic.py 127-139
TextCritique(response, novelty, feasibility, specificity, impact) ==
    CritiqueMetrics(novelty, feasibility, specificity, impact,
                    RoundedAverage(<<novelty, feasibility, specificity, impact>>),
                    PStr(Prefix(response, FeedbackLimit)), PStr(response))

parse_from_text(response) ==
    LET novelty == find_score(response, <<"novelty", "novel">>)
        feasibility == find_score(response, <<"feasibility", "feasible">>)
        specificity == find_score(response, <<"specificity", "specific">>)
        impact == find_score(response, <<"impact">>)
    IN TextCritique(response, novelty, feasibility, specificity, impact)

\* one "- item" line per element, joined by newlines
Bullets(items) == Join(<<"\n">>, [i \in 1..Len(items) |-> <<"- ">> \o Str(items[i])])

\* feedback_parts of _parse_critique_response
FeedbackParts(data, novelty, feasibility, specificity, impact) ==
    LET get(k) == DictGet(data, <<k>>, PNone)
        part(k, label) == IF Truthy(get(k)) THEN <<label \o <<" ">> \o Str(get(k))>> ELSE <<>>
        scored(name, score) == <<"**", name, " (">> \o IntToks(score) \o <<"/5):**">>
        bullets(k, label) ==
            IF Truthy(get(k)) /\ IsList(get(k)) THEN <<<<label, "\n">> \o Bullets(get(k).items)>> ELSE <<>>
    IN part("overall_feedback", <<"**Overall Assessment:**">>)
       \o part("novelty_reasoning", scored("Novelty", novelty))
       \o part("feasibility_reasoning", scored("Feasibility", feasibility))
       \o part("specificity_reasoning", scored("Specificity", specificity))
       \o part("impact_reasoning", scored("Impact", impact))
       \o bullets("key_weaknesses", "**Key Weaknesses:**")
       \o bullets("key_strengths", "**Key Strengths:**")

NoFeedback == PStr(<<"No detailed feedback provided.">>)

\* critic.py 99: the joined parts, or the raw overall_feedback field
FeedbackText(data, feedback_parts) ==
    IF feedback_parts # <<>> THEN PStr(Join(<<"\n\n">>, feedback_parts))
    ELSE DictGet(data, <<"overall_feedback">>, NoFeedback)

\* critic.py 71-114 once the four scores are read
ScoredCritique(data, response, novelty, feasibility, specificity, impact) ==
    CritiqueMetrics(novelty, feasibility, specificity, impact,
                    RoundedAverage(<<novelty, feasibility, specificity, impact>>),
                    FeedbackText(data, FeedbackParts(data, novelty, feasibility, specificity, impact)),
                    PStr(response))

\* the isinstance(data, dict) branch of _parse_critique_response
StructuredCritique(data, response) ==
    ScoredCritique(data, response,
                   safe_int(DictGet(data, <<"novelty_score">>, PInt(0))),
                   safe_int(DictGet(data, <<"feasibility_score">>, PInt(0))),
                   safe_int(DictGet(data, <<"specificity_score">>, PInt(0))),
                   safe_int(DictGet(data, <<"impact_score">>, PInt(0))))

create_error_critique(error_msg) ==
    CritiqueMetrics(0, 0, 0, 0, 0, PStr(<<"Error: ">> \o error_msg), PNone)

ScoreKeys == <<"novelty_score", "feasibility_score", "specificity_score", "impact_score">>

\* CriticAgent._parse_critique_response: [raised, critique]; raised = TRUE when
\* an exception leaves the method (critique is then a placeholder)
CritiqueFromData(data, response) ==
    IF IsDict(data)
    THEN IF \E i \in 1..4 : SafeIntRaises(DictGet(data, <<ScoreKeys[i]>>, PInt(0)))
         THEN [raised |-> TRUE, critique |-> create_error_critique(<<"OverflowError">>)]
         ELSE [raised |-> FALSE, critique |-> StructuredCritique(data, response)]
    ELSE [raised |-> FALSE, critique |-> parse_from_text(response)]

parse_critique_response(response) == CritiqueFromData(extract_json(response), response)

\* ------------------------------------------------------------------------
\* core/types.py: ideas
\* ------------------------------------------------------------------------
IdeaContent(title, methodology, description, raw_content) ==
    [title |-> title, methodology |-> methodology, description |-> description,
     raw_content |-> raw_content]

RefinementDetails(original_title, original_methodology, critique_feedback, critique_score, refinement_reasoning, changes_made) ==
    [original_title |-> original_title, original_methodology |-> original_methodology,
     critique_feedback |-> critique_feedback, critique_score |-> critique_score,
     refinement_reasoning |-> refinement_reasoning, changes_made |-> changes_made]

\* content, critique and refinement_details are <<>> (None) or a one-element
\* sequence
IdeaSnapshot(iteration, role, content, critique, refinement_details) ==
    [iteration |-> iteration, role |-> role, content |-> content,
     critique |-> critique, refinement_details |-> refinement_details]

\* IdeaObject() with its defaults
IdeaObject == [current_iteration |-> 0, status |-> "active", evolution_history |-> <<>>]

\* IdeaObject.latest_content and latest_critique: <<>> stands for None
latest_content(idea) ==
    IF idea.evolution_history = <<>> THEN <<>>
    ELSE idea.evolution_history[Len(idea.evolution_history)].content

latest_critique(idea) ==
    IF idea.evolution_history = <<>> THEN <<>>
    ELSE idea.evolution_history[Len(idea.evolution_history)].critique

\* ------------------------------------------------------------------------
\* core/model_manager.py and agents/base_agent.py
\* ------------------------------------------------------------------------
\* what the HTTP call to the backend does: an exception, or a response text
BackendError == [err |-> TRUE, text |-> <<>>]

BackendText(text) == [err |-> FALSE, text |-> text]

\* _call_ollama and _call_ollama_cloud: "" when the request raises
call_ollama(outcome) == IF outcome.err THEN <<>> ELSE outcome.text

\* ModelManager.generate_response through BaseAgent.generate:
\* raised = TRUE is the ValueError for an unsupported provider
generate(provider, outcome) ==
    IF provider \in {"ollama", "ollama-cloud"}
    THEN [raised |-> FALSE, text |-> call_ollama(outcome)]
    ELSE [raised |-> TRUE, text |-> <<>>]

\* ------------------------------------------------------------------------
\* Inputs: texts the backend may return
\* ------------------------------------------------------------------------
\* "key": value
KV(key, value) == <<QUOTE, key, QUOTE, ":", " ">> \o value

\* { member, member, ... }
ObjText(members) == <<"{">> \o Join(<<",", " ">>, members) \o <<"}">>

StrLit(toks) == <<QUOTE>> \o toks \o <<QUOTE>>

\* a critique object with the four scores given as token sequences (<<>> to
\* leave the field out) and further members
CritiqueText(scores, more) ==
    ObjText([i \in 1..Len(SelectSeq([j \in 1..4 |-> j], LAMBDA j : scores[j] # <<>>)) |->
                LET j == SelectSeq([k \in 1..4 |-> k], LAMBDA k : scores[k] # <<>>)[i]
                IN KV(ScoreKeys[j], scores[j])] \o more)

Fenced(text) == <<"Here", " ", FENCE, "json", "\n">> \o text \o <<"\n", FENCE>>

InProse(text) == <<"Sure", ":", " ">> \o text \o <<" ", "done">>

GoodFeedback == KV("overall_feedback", StrLit(<<"vague", " ", "method">>))

\* texts the critic backend returns in the runs of research_loop
LowText == <<"Novelty", ":", " ", "1", "/", "5", " ", "weak">>

MidText == Fenced(CritiqueText(<<<<"2">>, <<"2">>, <<>>, <<>>>>, <<GoodFeedback>>))

HighText == InProse(CritiqueText(<<<<"3">>, <<"3">>, <<"3">>, <<"3">>>>, <<GoodFeedback>>))

MidNullFeedbackText == CritiqueText(<<<<"1">>, <<"3">>, <<>>, <<>>>>, <<KV("overall_feedback", <<"null">>)>>)

InfinityText == CritiqueText(<<<<"Infinity">>, <<>>, <<>>, <<>>>>, <<>>)

LoopCriticTexts == {LowText, MidText, HighText, MidNullFeedbackText, InfinityText}

LoopCriticOutcomes == {BackendError} \cup {BackendText(t) : t \in LoopCriticTexts}

\* texts the refiner backend returns in the runs of research_loop
RefinedText ==
    ObjText(<<KV("refined_title", StrLit(<<"T2">>)), KV("refined_methodology", StrLit(<<"M2">>)),
              KV("thinking_process", StrLit(<<"why">>))>>)

UnparsedText == <<"I", " ", "cannot", " ", "{">>

NullTitleText == Fenced(ObjText(<<KV("refined_title", <<"null">>), KV("changes_summary", StrLit(<<"none">>))>>))

LoopRefinerTexts == {RefinedText, UnparsedText, NullTitleText}

LoopRefinerOutcomes == {BackendError} \cup {BackendText(t) : t \in LoopRefinerTexts}

\* the parses of the texts of the runs of research_loop, computed once
ParsedCritiques == [t \in LoopCriticTexts \cup {<<>>} |-> parse_critique_response(t)]

ExtractedData == [t \in LoopRefinerTexts \cup {<<>>} |-> extract_json(t)]

\* critique = self._parse_critique_response(response)
CritiqueOf(response) ==
    IF response \in DOMAIN ParsedCritiques THEN ParsedCritiques[response]
    ELSE parse_critique_response(response)

\* data = extract_json(response)
DataOf(response) ==
    IF response \in DOMAIN ExtractedData THEN ExtractedData[response]
    ELSE extract_json(response)

\* titles item.get("title", "Untitled") gives a draft
DraftTitles == {PStr(<<"T1">>), PNone}

\* ------------------------------------------------------------------------
\* agents/refiner.py
\* ------------------------------------------------------------------------
\* critique.feedback_text[:500], counted in tokens
CritiqueFeedbackLimit == 500

Slice(v, k) ==
    IF v.t = "str" THEN PStr(Prefix(v.s, k))
    ELSE PList(SubSeq(v.items, 1, IF Len(v.items) < k THEN Len(v.items) ELSE k))

\* the "weakness -> solution" lines of the dicts among the addressed
\* weaknesses ("* " stands for the bullet character, " -> " for the arrow)
ChangesList(weaknesses) ==
    LET dicts == SelectSeq(weaknesses, IsDict)
    IN [i \in 1..Len(dicts) |->
           <<"* ">> \o Str(DictGet(dicts[i], <<"weakness">>, PStr(<<"N/A">>)))
           \o <<" -> ">> \o Str(DictGet(dicts[i], <<"solution">>, PStr(<<"N/A">>)))]

\* the lines to add to changes_made (empty when there is nothing to add)
AddedChanges(data) ==
    LET w == DictGet(data, <<"addressed_weaknesses">>, PNone)
    IN IF Truthy(w) /\ IsList(w) THEN ChangesList(w.items) ELSE <<>>

\* changes_made += text raises TypeError unless changes_made is a str or a list
ChangesRaises(data) ==
    /\ AddedChanges(data) # <<>>
    /\ DictGet(data, <<"changes_summary">>, PStr(<<>>)).t \notin {"str", "list"}

ChangesMade(data) ==
    LET summary == DictGet(data, <<"changes_summary">>, PStr(<<>>))
        added == AddedChanges(data)
        text == <<"\n\n", "**Addressed Weaknesses:**", "\n">> \o Join(<<"\n">>, added)
        changes_made ==
            IF added = <<>> THEN summary
            ELSE IF summary.t = "str" THEN PStr(summary.s \o text)
            ELSE PList(summary.items \o [i \in 1..Len(text) |-> PStr(<<text[i]>>)])
    IN IF Truthy(changes_made) THEN changes_made
       ELSE PStr(<<"No specific changes documented">>)

ParseFailureReasoning == PStr(<<"Parsing failed - using original content">>)

\* the part of RefinerAgent.improve after the producer call:
\* [raised, content, details]
RefinementFromData(data, content, critique, response) ==
    LET failed == [raised |-> TRUE, content |-> content, details |-> <<>>]
    IN IF IsDict(data)
       THEN IF ChangesRaises(data) \/ ~Subscriptable(critique.feedback_text) THEN failed
            ELSE [raised |-> FALSE,
                  content |-> IdeaContent(
                      DictGet(data, <<"refined_title">>, content.title),
                      DictGet(data, <<"refined_methodology">>, content.methodology),
                      DictGet(data, <<"refined_description">>, content.description),
                      PStr(response)),
                  details |-> <<RefinementDetails(
                      content.title, content.methodology,
                      Slice(critique.feedback_text, CritiqueFeedbackLimit),
                      critique.average_score,
                      DictGet(data, <<"thinking_process">>, PStr(<<"No reasoning provided">>)),
                      ChangesMade(data))>>]
       ELSE IF ~Subscriptable(critique.feedback_text) THEN failed
            ELSE [raised |-> FALSE, content |-> content,
                  details |-> <<RefinementDetails(
                      content.title, content.methodology,
                      Slice(critique.feedback_text, CritiqueFeedbackLimit),
                      critique.average_score, ParseFailureReasoning,
                      PStr(<<"No changes (parsing error)">>))>>]

improve_build(content, critique, response) ==
    RefinementFromData(DataOf(response), content, critique, response)

\* as NothingToRefine, after a call of the producer
NothingToRefineAfterCall(content) ==
    [raised |-> FALSE, called |-> TRUE, content |-> content, details |-> <<>>]

\* refiner.py 14-15: return content, None
NothingToRefine(content) ==
    [raised |-> FALSE, called |-> FALSE, content |-> content, details |-> <<>>]

Called(r) == [raised |-> r.raised, called |-> TRUE, content |-> <<r.content>>, details |-> r.details]

\* RefinerAgent.improve: [raised, called, content, details]; content is <<>>
\* for None; called tells whether the producer was called
improve(idea, provider, outcome) ==
    LET content == latest_content(idea)
        critique == latest_critique(idea)
        g == generate(provider, outcome)
    IN IF content = <<>> \/ critique = <<>>
       THEN NothingToRefine(content)
       ELSE IF ~Subscriptable(content[1].title) \/ g.raised
       THEN [raised |-> TRUE, called |-> Subscriptable(content[1].title),
             content |-> content, details |-> <<>>]
       ELSE Called(improve_build(content[1], critique[1], g.text))

Evaluated(r) == [raised |-> r.raised, called |-> TRUE, critique |-> r.critique]

\* one iteration of the loop of CriticAgent.evaluate: [raised, called, critique]
evaluate_one(idea, provider, outcome) ==
    LET content == latest_content(idea)
        g == generate(provider, outcome)
        nothing == create_error_critique(<<"No content found">>)
    IN IF content = <<>>
       THEN [raised |-> FALSE, called |-> FALSE, critique |-> nothing]
       ELSE IF ~Subscriptable(content[1].title) \/ g.raised
       THEN [raised |-> TRUE, called |-> Subscriptable(content[1].title), critique |-> nothing]
       ELSE Evaluated(CritiqueOf(g.text))

\* ------------------------------------------------------------------------
\* main.py: research_loop
\* ------------------------------------------------------------------------
MaxIdeas == 2

MaxLoops == 2

DefaultScoreThreshold == 300

DefaultDropThreshold == 200

\* loop_settings of config.yaml (<<>> for a missing key) and the provider of
\* each role under agent_models
Config(score, drop, gen, critic, refiner) ==
    [score_threshold |-> score, drop_threshold |-> drop,
     provider |-> [generator |-> gen, critic |-> critic, refiner |-> refiner]]

Configs ==
    {Config(<<>>, <<>>, "ollama", "ollama", "ollama-cloud"),
     Config(<<200>>, <<200>>, "ollama", "ollama", "ollama"),
     Config(<<200>>, <<300>>, "ollama", "ollama", "ollama"),
     Config(<<300>>, <<200>>, "ollama", "openai", "ollama"),
     Config(<<300>>, <<200>>, "ollama", "ollama", "none"),
     Config(<<300>>, <<200>>, "none", "ollama", "ollama")}

VARIABLES
    config,            \* model_mgr.config
    max_loops,         \* the max_loops argument
    score_threshold,   \* locals of research_loop
    drop_threshold,
    objs,              \* the IdeaObjects created by the generator, by index
    ideas,             \* the list ideas (indices into objs)
    critiques,         \* the list critic.evaluate builds and returns
    needs_refinement,
    refined_ideas,
    accepted_ideas,
    loop,              \* the loop variable of "for loop in range(max_loops)"
    idx,               \* position in the list the current for statement walks
    pc,                \* the statement research_loop is at
    output,            \* <<>> or <<the list written to output_file>>
    arg,               \* the arguments of a single call of an agent method
    ret                \* <<>> or <<what that call returned>>

vars == <<config, max_loops, score_threshold, drop_threshold, objs, ideas, critiques,
          needs_refinement, refined_ideas, accepted_ideas, loop, idx, pc, output, arg, ret>>

\* the variables of a single agent call, which research_loop leaves alone
unit == <<arg, ret>>

\* the variables of research_loop other than pc
run == <<config, max_loops, score_threshold, drop_threshold, objs, ideas, critiques,
         needs_refinement, refined_ideas, accepted_ideas, loop, idx, output>>

Init ==
    /\ config \in Configs
    /\ max_loops \in 0..MaxLoops
    /\ score_threshold = 0
    /\ drop_threshold = 0
    /\ objs = <<>>
    /\ ideas = <<>>
    /\ critiques = <<>>
    /\ needs_refinement = <<>>
    /\ refined_ideas = <<>>
    /\ accepted_ideas = <<>>
    /\ loop = 0
    /\ idx = 0
    /\ pc = "init"
    /\ output = <<>>
    /\ arg = <<>>
    /\ ret = <<>>

\* loop_settings.get(key, default)
GetSetting(setting, default) == IF setting = <<>> THEN default ELSE setting[1]

\* main.py 28-35
Initialize ==
    /\ pc = "init"
    /\ score_threshold' = GetSetting(config.score_threshold, DefaultScoreThreshold)
    /\ drop_threshold' = GetSetting(config.drop_threshold, DefaultDropThreshold)
    /\ pc' = "generate"
    /\ UNCHANGED <<config, max_loops, objs, ideas, critiques, needs_refinement, refined_ideas,
                   accepted_ideas, loop, idx, output>>
    /\ UNCHANGED unit

\* as Draft, with iteration=1 on line 268
DraftAtOne(title) ==
    [IdeaObject EXCEPT !.evolution_history =
        <<IdeaSnapshot(1, "draft",
                       <<IdeaContent(title, PStr(<<"M1">>), PStr(<<"D1">>), PStr(<<"item">>))>>,
                       <<>>, <<>>)>>]

\* the IdeaObject create_drafts builds for one item (generator.py 258-273)
Draft(title) ==
    [IdeaObject EXCEPT !.evolution_history =
        <<IdeaSnapshot(0, "draft",
                       <<IdeaContent(title, PStr(<<"M1">>), PStr(<<"D1">>), PStr(<<"item">>))>>,
                       <<>>, <<>>)>>]

\* main.py 43-52: generator.create_drafts
Generate ==
    /\ pc = "generate"
    /\ IF generate(config.provider.generator, BackendError).raised
       THEN /\ pc' = "crashed"
            /\ UNCHANGED <<objs, ideas>>
       ELSE \E n \in 0..MaxIdeas : \E titles \in [1..n -> DraftTitles] :
               /\ objs' = [i \in 1..n |-> Draft(titles[i])]
               /\ ideas' = [i \in 1..n |-> i]
               /\ pc' = "loop"
    /\ loop' = 0
    /\ UNCHANGED <<config, max_loops, score_threshold, drop_threshold, critiques,
                   needs_refinement, refined_ideas, accepted_ideas, idx, output>>
    /\ UNCHANGED unit

\* main.py 54-59: another pass is made
LoopContinues(k, limit, list) == k < limit /\ list # <<>>

\* main.py 54-59 and 62: the head of the for statement
LoopHead ==
    /\ pc = "loop"
    /\ IF LoopContinues(loop, max_loops, ideas)
       THEN /\ pc' = "critic"
            /\ idx' = 1
            /\ critiques' = <<>>
       ELSE /\ pc' = "finalize"
            /\ UNCHANGED <<idx, critiques>>
    /\ UNCHANGED <<config, max_loops, score_threshold, drop_threshold, objs, ideas,
                   needs_refinement, refined_ideas, accepted_ideas, loop, output>>
    /\ UNCHANGED unit

\* main.py 63, critic.py 15-58: one iteration of critic.evaluate(ideas)
CriticCall ==
    /\ pc = "critic"
    /\ \E outcome \in LoopCriticOutcomes :
          \E r \in {evaluate_one(objs[ideas[idx]], config.provider.critic, outcome)} :
             IF r.raised
             THEN /\ pc' = "crashed"
                  /\ UNCHANGED <<critiques, idx, needs_refinement>>
             ELSE /\ critiques' = Append(critiques, r.critique)
                  /\ IF idx < Len(ideas)
                     THEN /\ idx' = idx + 1
                          /\ UNCHANGED <<pc, needs_refinement>>
                     ELSE /\ idx' = 1
                          /\ pc' = "filter"
                          /\ needs_refinement' = <<>>
    /\ UNCHANGED <<config, max_loops, score_threshold, drop_threshold, objs, ideas,
                   refined_ideas, accepted_ideas, loop, output>>
    /\ UNCHANGED unit

\* as Classify, with > in place of >= on line 76
ClassifyStrictAccept(average_score, accept_at, drop_below) ==
    IF average_score > accept_at THEN "accept"
    ELSE IF average_score < drop_below THEN "drop"
    ELSE "refine"

\* as Classify, with <= in place of < on line 80
ClassifyInclusiveDrop(average_score, accept_at, drop_below) ==
    IF average_score >= accept_at THEN "accept"
    ELSE IF average_score <= drop_below THEN "drop"
    ELSE "refine"

\* as Classify, without the elif of lines 80-82
ClassifyNoDrop(average_score, accept_at, drop_below) ==
    IF average_score >= accept_at THEN "accept" ELSE "refine"

\* as Classify, with the test of line 80 before the test of line 76
ClassifyDropFirst(average_score, accept_at, drop_below) ==
    IF average_score < drop_below THEN "drop"
    ELSE IF average_score >= accept_at THEN "accept"
    ELSE "refine"

\* main.py 76-85: the outcome of the filter for an average
Classify(average_score, accept_at, drop_below) ==
    IF average_score >= accept_at THEN "accept"
    ELSE IF average_score < drop_below THEN "drop"
    ELSE "refine"

\* as AttachCritique, with evolution_history[0] in place of [-1] on line 72
AttachCritiqueToFirst(idea, review) ==
    IF idea.evolution_history # <<>>
    THEN [idea EXCEPT !.evolution_history[1].critique = <<review>>]
    ELSE idea

\* as AttachCritique, without the assignment of line 72
AttachCritiqueNever(idea, review) == idea

\* main.py 71-72: attach the review to the last snapshot
AttachCritique(idea, review) ==
    IF idea.evolution_history # <<>>
    THEN [idea EXCEPT !.evolution_history[Len(idea.evolution_history)].critique = <<review>>]
    ELSE idea

\* main.py 69-90: one iteration of the filter loop, and the test after it
FilterIdea ==
    /\ pc = "filter"
    /\ LET id == ideas[idx]
           review == critiques[idx]
           idea == AttachCritique(objs[id], review)
           content == latest_content(idea)
           outcome == Classify(review.average_score, score_threshold, drop_threshold)
           queue == IF outcome = "refine" THEN Append(needs_refinement, id) ELSE needs_refinement
       IN IF content = <<>> \/ ~Subscriptable(content[1].title)
          THEN /\ objs' = [objs EXCEPT ![id] = idea]
               /\ pc' = "crashed"
               /\ UNCHANGED <<accepted_ideas, needs_refinement, refined_ideas, idx>>
          ELSE /\ objs' = [objs EXCEPT ![id] =
                              [idea EXCEPT !.status =
                                  CASE outcome = "accept" -> "accepted"
                                    [] outcome = "drop" -> "rejected"
                                    [] OTHER -> idea.status]]
               /\ accepted_ideas' = IF outcome = "accept" THEN Append(accepted_ideas, id)
                                    ELSE accepted_ideas
               /\ needs_refinement' = queue
               /\ IF idx < Len(ideas) /\ idx < Len(critiques)
                  THEN /\ idx' = idx + 1
                       /\ UNCHANGED <<pc, refined_ideas>>
                  ELSE IF queue = <<>>
                  THEN /\ pc' = "finalize"
                       /\ UNCHANGED <<idx, refined_ideas>>
                  ELSE /\ pc' = "refine"
                       /\ idx' = 1
                       /\ refined_ideas' = <<>>
    /\ UNCHANGED <<config, max_loops, score_threshold, drop_threshold, ideas, critiques,
                   loop, output>>
    /\ UNCHANGED unit

\* as NextIdeas, but without line 111: the next pass walks the same list again
NextIdeasKept(refined, current) == current

\* main.py 111: the list of the next pass
NextIdeas(refined, current) == refined

\* main.py 94-111: one iteration of the refiner loop, and the end of the pass
RefineIdea ==
    /\ pc = "refine"
    /\ \E outcome \in LoopRefinerOutcomes :
          \E r \in {improve(objs[needs_refinement[idx]], config.provider.refiner, outcome)} :
          LET id == needs_refinement[idx]
              new_snapshot == IdeaSnapshot(loop + 1, "refined", r.content, <<>>, r.details)
              done == Append(refined_ideas, id)
          IN IF r.raised
             THEN /\ pc' = "crashed"
                  /\ UNCHANGED <<objs, refined_ideas, idx, ideas, loop>>
             ELSE /\ objs' = [objs EXCEPT
                                ![id].evolution_history = Append(@, new_snapshot),
                                ![id].current_iteration = @ + 1]
                  /\ refined_ideas' = done
                  /\ IF idx < Len(needs_refinement)
                     THEN /\ idx' = idx + 1
                          /\ UNCHANGED <<pc, ideas, loop>>
                     ELSE /\ ideas' = NextIdeas(done, ideas)
                          /\ loop' = loop + 1
                          /\ pc' = "loop"
                          /\ UNCHANGED idx
    /\ UNCHANGED <<config, max_loops, score_threshold, drop_threshold, critiques,
                   needs_refinement, accepted_ideas, output>>
    /\ UNCHANGED unit

\* as StillActive, without the test of line 118
StillActiveAll(list) == list

\* the ideas of the list that are still active, in order
StillActive(list) == SelectSeq(list, LAMBDA id : objs[id].status = "active")

\* as FinalStatus, without the test of line 118
FinalStatusAll(status) == "refined_best_effort"

\* as FinalStatus, without the assignment of line 119
FinalStatusKept(status) == status

\* main.py 118-119
FinalStatus(status) == IF status = "active" THEN "refined_best_effort" ELSE status

\* main.py 115-120
Finalize ==
    /\ pc = "finalize"
    /\ objs' = [id \in 1..Len(objs) |->
                   IF \E k \in 1..Len(ideas) : ideas[k] = id
                   THEN [objs[id] EXCEPT !.status = FinalStatus(@)]
                   ELSE objs[id]]
    /\ accepted_ideas' = accepted_ideas \o StillActive(ideas)
    /\ pc' = "save"
    /\ UNCHANGED <<config, max_loops, score_threshold, drop_threshold, ideas, critiques,
                   needs_refinement, refined_ideas, loop, idx, output>>
    /\ UNCHANGED unit

\* main.py 123-136: json.dump(accepted_ideas) and return
Save ==
    /\ pc = "save"
    /\ output' = <<[k \in 1..Len(accepted_ideas) |->
                       [idea_id |-> accepted_ideas[k], idea |-> objs[accepted_ideas[k]]]]>>
    /\ pc' = "done"
    /\ UNCHANGED <<config, max_loops, score_threshold, drop_threshold, objs, ideas, critiques,
                   needs_refinement, refined_ideas, accepted_ideas, loop, idx>>
    /\ UNCHANGED unit

Next ==
    \/ Initialize
    \/ Generate
    \/ LoopHead
    \/ CriticCall
    \/ FilterIdea
    \/ RefineIdea
    \/ Finalize
    \/ Save

Spec == Init /\ [][Next]_vars

\* research_loop runs in one thread: the statement it is at is taken
FairSpec == Spec /\ WF_vars(Next)

\* ------------------------------------------------------------------------
\* Single calls of CriticAgent.evaluate (one idea) and RefinerAgent.improve
\* ------------------------------------------------------------------------
\* values a score field of the critic's JSON may hold (<<>>: field left out)
ScoreFieldValues ==
    {<<>>, <<"4">>, <<"0">>, <<"9">>, <<"-", "3">>, <<"1", "2">>, <<"3", ".", "7">>,
     StrLit(<<"5">>), StrLit(<<"x">>), <<"null">>, <<"true">>, <<"[", "1", "]">>,
     <<"NaN">>, <<"Infinity">>}

FeedbackMembers ==
    {<<>>, <<GoodFeedback>>, <<KV("overall_feedback", <<"null">>)>>,
     <<KV("novelty_reasoning", StrLit(<<"old">>)), KV("key_weaknesses", <<"[">> \o StrLit(<<"slow">>) \o <<"]">>)>>}

StructuredResponses ==
    {CritiqueText(<<n, f, s, i>>, more) :
        n \in ScoreFieldValues, f \in {<<>>, <<"1">>, <<"5">>}, s \in {<<>>, <<"2">>},
        i \in {<<>>, <<"5">>, <<"-", "3">>}, more \in FeedbackMembers}

\* phrases of a prose critique, per criterion
NoveltyPhrases ==
    {<<>>, <<"Novelty", ":", " ", "4", "/", "5">>, <<"novel", ":", " ", "9">>,
     <<"novelty", " ", "score", ":", " ", "2">>, <<"novelty", ":", " ", "0">>,
     <<"novelty", ":", " ", "9", " ", "novel", ":", " ", "3">>,
     <<"novelty", ":", " ", "9", " ", "novelty", ":", " ", "3">>}

FeasibilityPhrases ==
    {<<>>, <<"feasibility", " ", "score", ":", " ", "2">>, <<"feasible", ":", "\n", "5">>}

SpecificityPhrases == {<<>>, <<"specific", " ", "3">>, <<"Specificity", "5">>}

ImpactPhrases == {<<>>, <<"Impact", " ", ":", " ", "1", "2">>}

ProseResponses ==
    {Join(<<" ", "and", " ">>, SelectSeq(<<n, f, s, i>>, LAMBDA ph : ph # <<>>)) :
        n \in NoveltyPhrases, f \in FeasibilityPhrases, s \in SpecificityPhrases,
        i \in ImpactPhrases}

\* JSON that is no object, a fence without JSON, a fence left open
OtherResponses ==
    {<<"[", "1", ",", " ", "2", "]">>, <<"5">>, <<"null">>,
     StrLit(<<"novelty", ":", " ", "4">>),
     <<FENCE, " ", "x", " ", FENCE, " ">> \o CritiqueText(<<<<"2">>, <<>>, <<>>, <<>>>>, <<>>),
     <<FENCE, "json", "\n">> \o CritiqueText(<<<<"2">>, <<>>, <<>>, <<>>>>, <<>>)}

CriticResponses ==
    StructuredResponses
    \cup {Fenced(t) : t \in StructuredResponses}
    \cup {InProse(t) : t \in StructuredResponses}
    \cup ProseResponses \cup OtherResponses

Providers == {"ollama", "ollama-cloud", "openai"}

Call(role, idea, provider, outcome) ==
    [role |-> role, idea |-> idea, provider |-> provider, outcome |-> outcome]

\* an idea that was never given a snapshot
EmptyIdea == IdeaObject

CriticCalls ==
    {Call("critic", Draft(PStr(<<"T1">>)), "ollama", BackendText(t)) : t \in CriticResponses}
    \cup {Call("critic", idea, provider, outcome) :
            idea \in {Draft(PStr(<<"T1">>)), Draft(PNone), EmptyIdea},
            provider \in Providers,
            outcome \in {BackendError, BackendText(<<>>), BackendText(MidText)}}

\* texts the refiner backend may return
RefinerResponses ==
    {ObjText(SelectSeq(<<t, m, c, w, th>>, LAMBDA member : member # <<>>)) :
        t \in {<<>>, KV("refined_title", StrLit(<<"T2">>)), KV("refined_title", <<"null">>)},
        m \in {<<>>, KV("refined_methodology", StrLit(<<"M2">>))},
        c \in {<<>>, KV("changes_summary", StrLit(<<"rewrote">>)), KV("changes_summary", <<"null">>)},
        w \in {<<>>, KV("addressed_weaknesses", <<"[", "{">> \o KV("weakness", StrLit(<<"slow">>)) \o <<"}", "]">>),
               KV("addressed_weaknesses", StrLit(<<"all">>))},
        th \in {<<>>, KV("thinking_process", StrLit(<<"why">>))}}
    \cup {UnparsedText, <<>>, <<"[", "1", "]">>, NullTitleText, Fenced(RefinedText)}

\* a draft whose snapshot carries the critique built from text
Critiqued(title, text) ==
    AttachCritique(Draft(title), parse_critique_response(text).critique)

RefinerCalls ==
    {Call("refiner", Critiqued(PStr(<<"T1">>), MidText), "ollama", BackendText(t)) : t \in RefinerResponses}
    \cup {Call("refiner", idea, provider, outcome) :
            idea \in {Critiqued(PStr(<<"T1">>), MidText), Critiqued(PStr(<<"T1">>), MidNullFeedbackText),
                      Critiqued(PNone, MidText), Draft(PStr(<<"T1">>)), EmptyIdea},
            provider \in Providers,
            outcome \in {BackendError, BackendText(<<>>), BackendText(UnparsedText),
                         BackendText(RefinedText)}}

\* pieces of the texts handed to extract_json alone
Obj1 == ObjText(<<KV("a", <<"1">>)>>)

Obj2 == ObjText(<<KV("b", <<"2">>)>>)

ParserBlocks ==
    {<<>>, Obj1, Obj2, <<"[", "1", "]">>, <<"null">>, <<"5">>,
     <<"not", " ", "json", " ", "at", " ", "all">>, <<" ", "see", " ">>,
     <<"{", "x", "}">>, StrLit(<<"{", "x", "}">>), StrLit(<<"]", " ", "[">>), <<"]">>,
     Fenced(Obj1), Fenced(Obj2), Fenced(<<"oops">>), Fenced(<<"null">>), InProse(Obj1),
     <<FENCE, "\n">> \o Obj1 \o <<"\n", FENCE>>,
     <<FENCE, "python", "\n", "[", "1", "]", "\n", FENCE>>,
     <<FENCE, "json", "\n">>}

\* texts handed to extract_json alone: two pieces side by side
ParserTexts == {a \o b : a \in ParserBlocks, b \in ParserBlocks}

ParserCalls == {Call("parser", EmptyIdea, "ollama", BackendText(t)) : t \in ParserTexts}

\* lists handed to critic.evaluate: ideas with and without a snapshot
IdeaLists ==
    UNION {[1..n -> {Draft(PStr(<<"T1">>)), EmptyIdea}] : n \in 0..MaxIdeas}

\* a call of critic.evaluate(ideas) on the list held by ideas and objs; the
\* idea and outcome fields of the call are not read
EvaluateCalls ==
    {Call("evaluate", EmptyIdea, provider, BackendError) : provider \in {"ollama", "openai"}}

\* what the backend may answer to one idea of the list
EvaluateOutcomes == {BackendError, BackendText(MidText), BackendText(HighText)}

UnitInit ==
    /\ config = Config(<<>>, <<>>, "ollama", "ollama", "ollama")
    /\ max_loops = 0
    /\ score_threshold = 0
    /\ drop_threshold = 0
    /\ critiques = <<>>
    /\ needs_refinement = <<>>
    /\ refined_ideas = <<>>
    /\ accepted_ideas = <<>>
    /\ loop = 0
    /\ idx = 0
    /\ output = <<>>
    /\ pc = "call"
    /\ arg \in CriticCalls \cup RefinerCalls \cup ParserCalls \cup EvaluateCalls
    /\ objs \in IF arg.role = "evaluate" THEN IdeaLists ELSE {<<>>}
    /\ ideas = [k \in 1..Len(objs) |-> k]
    /\ ret = <<>>

\* what a call returned, in one shape for both agents
Returned(raised, called, critique, content, details) ==
    [raised |-> raised, called |-> called, critique |-> critique, content |-> content,
     details |-> details]

FromCritic(r) == Returned(r.raised, r.called, <<r.critique>>, <<>>, <<>>)

FromRefiner(r) == Returned(r.raised, r.called, <<>>, r.content, r.details)

\* critic.py 15-56 for one idea
UnitEvaluate ==
    /\ pc = "call"
    /\ arg.role = "critic"
    /\ ret' = <<FromCritic(evaluate_one(arg.idea, arg.provider, arg.outcome))>>
    /\ pc' = "returned"
    /\ UNCHANGED <<run, arg>>

\* refiner.py 11-94
UnitImprove ==
    /\ pc = "call"
    /\ arg.role = "refiner"
    /\ ret' = <<FromRefiner(improve(arg.idea, arg.provider, arg.outcome))>>
    /\ pc' = "returned"
    /\ UNCHANGED <<run, arg>>

\* what extract_json returned: it has no path that raises (parser.py 42-46)
FromParser(data) == [raised |-> FALSE, called |-> FALSE, data |-> data]

\* parser.py 5-46
UnitExtract ==
    /\ pc = "call"
    /\ arg.role = "parser"
    /\ ret' = <<FromParser(extract_json(arg.outcome.text))>>
    /\ pc' = "returned"
    /\ UNCHANGED <<run, arg>>

\* as EvaluateFrom, but an idea without content is passed over
RECURSIVE EvaluateFromSkipping(_, _, _, _, _, _)
EvaluateFromSkipping(list, provider, outcomes, k, done, called) ==
    LET next(r) ==
            IF r.raised
            THEN [raised |-> TRUE, called |-> called \/ r.called, critiques |-> done]
            ELSE EvaluateFromSkipping(list, provider, outcomes, k + 1,
                                      IF r.called THEN Append(done, r.critique) ELSE done,
                                      called \/ r.called)
    IN IF k > Len(list) THEN [raised |-> FALSE, called |-> called, critiques |-> done]
       ELSE next(evaluate_one(list[k], provider, outcomes[k]))

\* critic.py 8-58: evaluate(ideas) from the k-th idea on, with the critiques
\* appended so far
RECURSIVE EvaluateFrom(_, _, _, _, _, _)
EvaluateFrom(list, provider, outcomes, k, done, called) ==
    LET next(r) ==
            IF r.raised
            THEN [raised |-> TRUE, called |-> called \/ r.called, critiques |-> done]
            ELSE EvaluateFrom(list, provider, outcomes, k + 1, Append(done, r.critique),
                              called \/ r.called)
    IN IF k > Len(list) THEN [raised |-> FALSE, called |-> called, critiques |-> done]
       ELSE next(evaluate_one(list[k], provider, outcomes[k]))

\* critic.py 8-58
evaluate(list, provider, outcomes) == EvaluateFrom(list, provider, outcomes, 1, <<>>, FALSE)

\* main.py 63: critiques = critic.evaluate(ideas)
UnitEvaluateAll ==
    /\ pc = "call"
    /\ arg.role = "evaluate"
    /\ \E outcomes \in [1..Len(ideas) -> EvaluateOutcomes] :
          \E r \in {evaluate([k \in 1..Len(ideas) |-> objs[ideas[k]]], arg.provider, outcomes)} :
             /\ critiques' = r.critiques
             /\ ret' = <<Returned(r.raised, r.called, <<>>, <<>>, <<>>)>>
    /\ pc' = "returned"
    /\ UNCHANGED <<config, max_loops, score_threshold, drop_threshold, objs, ideas,
                   needs_refinement, refined_ideas, accepted_ideas, loop, idx, output, arg>>

UnitNext == UnitEvaluate \/ UnitImprove \/ UnitExtract \/ UnitEvaluateAll

UnitSpec == UnitInit /\ [][UnitNext]_vars

\* ------------------------------------------------------------------------
\* Properties
\* ------------------------------------------------------------------------
Ids == 1..Len(objs)

History(id) == objs[id].evolution_history

TerminalStatuses == {"accepted", "rejected", "refined_best_effort"}

\* the average of the critique on snapshot k of idea id (-1 without critique)
AverageAt(id, k) ==
    IF k <= Len(History(id)) /\ History(id)[k].critique # <<>>
    THEN History(id)[k].critique[1].average_score
    ELSE -1

LatestAverage(id) == AverageAt(id, Len(History(id)))

InList(list, id) == \E k \in 1..Len(list) : list[k] = id

Between(average) == drop_threshold <= average /\ average < score_threshold

ProvidersSupported ==
    \A role \in {"generator", "critic", "refiner"} :
        config.provider[role] \in {"ollama", "ollama-cloud"}

\* C1: once an idea's status is terminal, no step changes the idea again: its
\* status stays, and it gets no further critique and no further snapshot.
C1_TerminalIsFinal ==
    [][\A id \in Ids : objs[id].status # "active" =>
           (id <= Len(objs') /\ objs'[id] = objs[id])]_vars

\* a later pass is refining while an idea of an earlier pass is terminal
C1_Witness ==
    /\ pc = "refine" /\ loop >= 1
    /\ \E a \in Ids : objs[a].status \in {"accepted", "rejected"} /\ ~InList(ideas, a)

\* C2: with drop_threshold <= score_threshold every filter step puts its idea
\* in exactly one outcome, which the average alone decides: accepted when
\* average >= score_threshold, rejected when average < drop_threshold, queued
\* for refinement (and left active) otherwise.
C2_FilterByAverage ==
    [][(pc = "filter" /\ drop_threshold <= score_threshold) =>
           LET id == ideas[idx]
               average == critiques[idx].average_score
               queued == needs_refinement' = Append(needs_refinement, id)
               skipped == needs_refinement' = needs_refinement
               listed == accepted_ideas' = Append(accepted_ideas, id)
           IN /\ pc' # "crashed"
              /\ average >= score_threshold =>
                    objs'[id].status = "accepted" /\ listed /\ skipped
              /\ average < drop_threshold =>
                    objs'[id].status = "rejected" /\ ~listed /\ skipped
              /\ Between(average) =>
                    objs'[id].status = "active" /\ ~listed /\ queued]_vars

\* an idea was accepted with an average equal to score_threshold in a pass
\* that queued another idea
C2_Witness ==
    /\ pc = "refine" /\ drop_threshold < score_threshold
    /\ \E a, b \in Ids :
          /\ objs[a].status = "accepted" /\ LatestAverage(a) = score_threshold
          /\ InList(needs_refinement, b) /\ Between(LatestAverage(b))

\* C3 as stated: an idea whose average equals drop_threshold is rejected
\* (here with drop_threshold < score_threshold).
C3_Original ==
    \A id \in Ids :
        (drop_threshold < score_threshold /\ LatestAverage(id) = drop_threshold)
            => objs[id].status = "rejected"

\* C3 amended: an idea whose average equals drop_threshold is not rejected: it
\* is queued for refinement and stays active when drop_threshold <
\* score_threshold, and is accepted when the two thresholds are equal.
C3_BoundaryIsNotDropped ==
    \A id \in Ids :
        (drop_threshold <= score_threshold /\ LatestAverage(id) = drop_threshold)
            => IF drop_threshold = score_threshold
               THEN objs[id].status = "accepted"
               ELSE objs[id].status = "active" /\ InList(needs_refinement, id)

\* an idea with an average equal to drop_threshold waits for its refinement
C3_Witness ==
    /\ pc = "refine" /\ drop_threshold < score_threshold
    /\ \E id \in Ids : LatestAverage(id) = drop_threshold /\ objs[id].status = "active"

\* C4 as stated: an idea whose first average is below drop_threshold is
\* rejected and keeps its single snapshot.
C4_Original ==
    \A id \in Ids :
        (AverageAt(id, 1) >= 0 /\ AverageAt(id, 1) < drop_threshold)
            => objs[id].status = "rejected" /\ Len(History(id)) = 1

\* C4 amended: an idea whose first average is below drop_threshold and below
\* score_threshold (every average below drop_threshold, when the thresholds
\* are in order) is rejected, keeps the draft as its only snapshot, with that
\* critique, and has no refinement record.
C4_LowFirstScoreIsRejected ==
    \A id \in Ids :
        (AverageAt(id, 1) >= 0 /\ AverageAt(id, 1) < drop_threshold
         /\ AverageAt(id, 1) < score_threshold)
            => /\ objs[id].status = "rejected"
               /\ Len(History(id)) = 1
               /\ History(id)[1].role = "draft"
               /\ History(id)[1].refinement_details = <<>>
               /\ objs[id].current_iteration = 0
               /\ ~InList(accepted_ideas, id)

\* the run ended with an idea rejected on its first score
C4_Witness ==
    /\ pc = "done" /\ max_loops >= 1
    /\ \E id \in Ids :
          /\ AverageAt(id, 1) >= 0 /\ AverageAt(id, 1) < drop_threshold
          /\ objs[id].status = "rejected"

\* C5 as stated: at the end of the run an idea whose average was between the
\* thresholds in each of max_loops passes is refined_best_effort and has
\* max_loops + 1 snapshots.
C5_Claim ==
    (pc \in {"done", "crashed"} /\ ProvidersSupported) =>
        \A id \in Ids :
            (\A k \in 1..max_loops : AverageAt(id, k) >= 0 /\ Between(AverageAt(id, k)))
                => /\ objs[id].status = "refined_best_effort"
                   /\ Len(History(id)) = max_loops + 1

C7_Claim ==
    (ProvidersSupported /\ \A id \in Ids : IsStr(History(id)[1].content[1].title))
        => pc # "crashed"

\* the fallback records for text that cannot be parsed
UnparsedCritique(text) == parse_from_text(text)

IsParseFailure(r, idea) ==
    /\ r.content = latest_content(idea)
    /\ r.details # <<>>
    /\ r.details[1].refinement_reasoning = ParseFailureReasoning

\* C8 as stated: a producer call that returns the empty string or raises is
\* handled as unparseable text: the critic returns the fallback critique with
\* all scores 0, the refiner the prior content with a parse-failure record,
\* and no exception leaves the agent.
C8_Claim ==
    (/\ pc = "returned"
     /\ latest_content(arg.idea) # <<>>
     /\ IsStr(latest_content(arg.idea)[1].title)
     /\ arg.role = "refiner" =>
           latest_critique(arg.idea) # <<>> /\ IsStr(latest_critique(arg.idea)[1].feedback_text)
     /\ \/ arg.outcome.err
        \/ arg.outcome.text = <<>>
        \/ arg.provider \notin {"ollama", "ollama-cloud"})
    => /\ ~ret[1].raised
       /\ arg.role = "critic" =>
             /\ ret[1].critique = <<UnparsedCritique(<<>>)>>
             /\ Scores(ret[1].critique[1]) = <<0, 0, 0, 0>>
       /\ arg.role = "refiner" => IsParseFailure(ret[1], arg.idea)

CriticReturned == pc = "returned" /\ arg.role = "critic" /\ ~ret[1].raised

\* C9 as stated: the stored average_score equals compute_average of the record.
C9_Original ==
    CriticReturned =>
        LET c == ret[1].critique[1]
        IN c.average_score * compute_average(c).den = 100 * compute_average(c).num

\* C9 amended: the stored average_score equals compute_average of the record
\* rounded to two decimals.
C9_StoredAverageIsRounded ==
    CriticReturned =>
        LET c == ret[1].critique[1]
        IN c.average_score = Round2(compute_average(c).num, compute_average(c).den)

\* the critic built a record from an object with three scores whose mean has
\* more than two decimals
C9_Witness ==
    /\ CriticReturned
    /\ IsDict(extract_json(arg.outcome.text))
    /\ Scores(ret[1].critique[1]) = <<4, 1, 2, 0>>
    /\ ret[1].critique[1].average_score = 233

\* C10 as stated: the four scores are integers in 0..5, the average is in
\* [0, 5], and the average is 0 exactly when all four scores are 0.
C10_Claim ==
    CriticReturned =>
        LET c == ret[1].critique[1]
        IN /\ \A k \in 1..4 : Scores(c)[k] \in 0..5
           /\ c.average_score \in 0..500
           /\ c.average_score = 0 <=> Scores(c) = <<0, 0, 0, 0>>

\* ------------------------------------------------------------------------
\* Properties of extract_json
\* ------------------------------------------------------------------------
ParserReturned == pc = "returned" /\ arg.role = "parser"

\* the text handed to extract_json
ParserInput == arg.outcome.text

\* the stripped inner text of the first fenced block
FencedInner(text) == Strip(FenceMatch(text).inner)

\* the text is valid JSON for a value other than null
Parses(text) == json_loads(text).ok /\ json_loads(text).v # PNone

\* the result of trying the three steps in turn, a failed parse passing on to
\* the next step
FirstSuccess(text) ==
    IF FenceMatch(text).found /\ json_loads(FencedInner(text)).ok
    THEN json_loads(FencedInner(text)).v
    ELSE IF SliceOrWhole(text) # text /\ json_loads(SliceOrWhole(text)).ok
    THEN json_loads(SliceOrWhole(text)).v
    ELSE ValueOrNone(json_loads(text))

\* C11 as stated: extract_json never raises, and whenever the fenced block,
\* the bracket slice or the whole text is valid JSON (for a value other than
\* null) the result is not null.
C11_Claim ==
    ParserReturned =>
        /\ ~ret[1].raised
        /\ (\/ FenceMatch(ParserInput).found /\ Parses(FencedInner(ParserInput))
            \/ Parses(SliceOrWhole(ParserInput))
            \/ Parses(ParserInput))
           => ret[1].data # PNone

\* C12 as stated: a parse failure at one step passes on to the next step, so
\* the result is that of the first step that succeeds, and null only when all
\* three steps have failed.
C12_Claim == ParserReturned => ret[1].data = FirstSuccess(ParserInput)

\* the tags a fenced block may carry in the texts
LanguageTags == {"json", "python"}

\* the inner text of the first fenced block, any language tag dropped
TaggedInner(text) ==
    LET inner == FenceMatch(text).inner
    IN IF inner # <<>> /\ inner[1] \in LanguageTags THEN Strip(Tail(inner)) ELSE Strip(inner)

C14_BracketSlice ==
    (ParserReturned /\ ~FenceMatch(ParserInput).found) =>
        LET text == ParserInput
            openers == {i \in 1..Len(text) : text[i] \in {"[", "{"}}
            first == CHOOSE i \in openers : \A j \in openers : i <= j
            closer == IF text[first] = "[" THEN "]" ELSE "}"
            closers == {i \in 1..Len(text) : text[i] = closer /\ i > first}
            last == CHOOSE i \in closers : \A j \in closers : j <= i
        IN IF openers # {} /\ closers # {}
           THEN ret[1].data = ValueOrNone(json_loads(SubSeq(text, first, last)))
           ELSE ret[1].data = ValueOrNone(json_loads(text))

\* JSON wrapped in leading and trailing prose was recovered
C14_Witness ==
    /\ ParserReturned
    /\ ParserInput = InProse(Obj1) \o <<" ", "see", " ">>
    /\ ret[1].data = PDict(<<PStr(<<"a">>), PInt(1)>>)

\* ------------------------------------------------------------------------
\* Properties of the critic's record
\* ------------------------------------------------------------------------
\* the critic was handed a text from which no object is extracted
TextFallback ==
    /\ pc = "returned" /\ arg.role = "critic"
    /\ ~ret[1].raised /\ ret[1].called
    /\ ~IsDict(extract_json(arg.outcome.text))

\* the keyword variants of the four criteria
Variants == <<{"novelty", "novel"}, {"feasibility", "feasible"}, {"specificity", "specific"}, {"impact"}>>

\* the digits that stand, anywhere in the lowered text, after one of the
\* keywords in the form "keyword: digit" or "keyword score: digit"
DigitsAfter(text, keywords) ==
    {DigitVal(Lower(text)[Pattern1At(Lower(text), k, p)]) :
        <<k, p>> \in {x \in keywords \X (1..Len(text)) : Pattern1At(Lower(text), x[1], x[2]) # 0}}
    \cup {DigitVal(Lower(text)[Pattern2At(Lower(text), k, p)]) :
        <<k, p>> \in {x \in keywords \X (1..Len(text)) : Pattern2At(Lower(text), x[1], x[2]) # 0}}

\* the example of the specification
ExampleText == <<"Novelty", ":", " ", "4", "/", "5", " ", "and", " ", "feasibility", " ", "score", ":", " ", "2">>

\* C15: on the text fallback a score is 0 or a digit in 1..5 that stands
\* after one of the criterion's keywords in one of the two forms; it is 0
\* when no such digit in 1..5 exists; the average is the mean, rounded to two
\* decimals, of the scores that are not 0; the example gives 4, 2, 0, 0 and 3.0.
C15_TextFallbackScores ==
    TextFallback =>
        LET c == ret[1].critique[1]
            text == arg.outcome.text
            found == SelectSeq(Scores(c), LAMBDA x : x # 0)
        IN /\ \A k \in 1..4 :
                 /\ Scores(c)[k] \in 0..5
                 /\ Scores(c)[k] # 0 => Scores(c)[k] \in DigitsAfter(text, Variants[k])
                 /\ DigitsAfter(text, Variants[k]) \cap (1..5) = {} => Scores(c)[k] = 0
           /\ c.average_score = IF found = <<>> THEN 0 ELSE Round2(Sum(found), Len(found))
           /\ text = ExampleText => Scores(c) = <<4, 2, 0, 0>> /\ c.average_score = 300

\* the critic scored the example of the specification
C15_Witness ==
    /\ TextFallback
    /\ arg.outcome.text = ExampleText
    /\ Scores(ret[1].critique[1]) = <<4, 2, 0, 0>>

\* the critic read the producer's text as an object
StructuredPath ==
    /\ pc = "returned" /\ arg.role = "critic"
    /\ ret[1].called
    /\ ~generate(arg.provider, arg.outcome).raised
    /\ IsDict(extract_json(arg.outcome.text))

\* JSON values that are no numbers
NonNumeric(v) == v.t \in {"str", "none", "list", "dict"}

\* C16 as stated: on the structured path the four score fields are read
\* without ever raising, and a score field that is missing or holds a string,
\* null, a list or an object gives the score 0.
C16_Claim ==
    StructuredPath =>
        /\ ~ret[1].raised
        /\ \A k \in 1..4 :
              LET data == extract_json(arg.outcome.text)
                  key == <<ScoreKeys[k]>>
              IN (~HasKey(data, key) \/ NonNumeric(DictGet(data, key, PNone)))
                     => Scores(ret[1].critique[1])[k] = 0

\* C17 as stated: the feedback_text of every critique the critic returns is a
\* text string, never null and never a value of another type.
C17_Claim == CriticReturned => IsStr(ret[1].critique[1].feedback_text)

----------------------------------------------------------------------------
\* Properties of the refiner's result

\* the refiner called the producer and got a text back
RefinerGotText ==
    /\ pc = "returned" /\ arg.role = "refiner"
    /\ ret[1].called
    /\ ~generate(arg.provider, arg.outcome).raised

RefinerData == extract_json(generate(arg.provider, arg.outcome).text)

\* C18 as stated: when the refiner's output cannot be extracted as an object,
\* improve returns the prior content exactly, with a record whose reasoning
\* states the parse failure, and does not raise.
C18_Claim ==
    (RefinerGotText /\ ~IsDict(RefinerData))
        => ~ret[1].raised /\ IsParseFailure(ret[1], arg.idea)

\* C19 as stated: each field of the new content that the extracted object does
\* not supply is the prior content's field, and a prior content with a title
\* always gives a new content with a title.
C19_Claim ==
    (RefinerGotText /\ ~ret[1].raised /\ IsDict(RefinerData))
        => LET old == latest_content(arg.idea)[1]
               new == ret[1].content[1]
           IN /\ ~HasKey(RefinerData, <<"refined_title">>) => new.title = old.title
              /\ ~HasKey(RefinerData, <<"refined_methodology">>) => new.methodology = old.methodology
              /\ ~HasKey(RefinerData, <<"refined_description">>) => new.description = old.description
              /\ IsStr(old.title) => IsStr(new.title)

\* C20: for an idea without a latest content or without a latest critique,
\* improve calls no producer, raises nothing and returns the idea's content
\* with no refinement record, which is not the result of a parse failure.
C20_NothingToRefine ==
    (/\ pc = "returned" /\ arg.role = "refiner"
     /\ latest_content(arg.idea) = <<>> \/ latest_critique(arg.idea) = <<>>)
    => /\ ~ret[1].raised
       /\ ~ret[1].called
       /\ ret[1].content = latest_content(arg.idea)
       /\ ret[1].details = <<>>
       /\ ~IsParseFailure(ret[1], arg.idea)

\* improve returned for a draft that has a content and no critique, under a
\* provider whose call would have raised
C20_Witness ==
    /\ pc = "returned" /\ arg.role = "refiner"
    /\ arg.idea = Draft(PStr(<<"T1">>))
    /\ arg.provider = "openai"
    /\ ret[1].content = latest_content(arg.idea)
    /\ ret[1].details = <<>>

----------------------------------------------------------------------------
\* Properties of critic.evaluate on ideas without content

NoContentCritique == create_error_critique(<<"No content found">>)

\* critic.evaluate(ideas) returned a list
EvaluateReturned == pc = "returned" /\ arg.role = "evaluate" /\ ~ret[1].raised

\* C21: for an idea without content the critic calls no producer and gives
\* the error record with four scores 0, average 0 and the message
\* "Error: No content found"; evaluate returns one critique per idea of its
\* list, the error record at the places of the ideas without content and a
\* parsed critique at the others.
C21_ErrorCritiqueInPlace ==
    /\ (pc = "returned" /\ arg.role = "critic" /\ latest_content(arg.idea) = <<>>)
          => /\ ~ret[1].raised /\ ~ret[1].called
             /\ ret[1].critique = <<NoContentCritique>>
    /\ EvaluateReturned
          => /\ Len(critiques) = Len(ideas)
             /\ \A k \in 1..Len(ideas) :
                   IF latest_content(objs[ideas[k]]) = <<>>
                   THEN /\ critiques[k] = NoContentCritique
                        /\ Scores(critiques[k]) = <<0, 0, 0, 0>>
                        /\ critiques[k].average_score = 0
                        /\ critiques[k].feedback_text = PStr(<<"Error: ", "No content found">>)
                   ELSE critiques[k] \in {CritiqueOf(o.text).critique : o \in EvaluateOutcomes}
             /\ (\A k \in 1..Len(ideas) : latest_content(objs[ideas[k]]) = <<>>) => ~ret[1].called

\* evaluate returned for a list whose first idea has no content and whose
\* second idea was critiqued from the producer's text
C21_Witness ==
    /\ EvaluateReturned
    /\ objs = <<EmptyIdea, Draft(PStr(<<"T1">>))>>
    /\ critiques[1] = NoContentCritique
    /\ critiques[2] = CritiqueOf(MidText).critique

----------------------------------------------------------------------------
\* Properties of the run as a whole

\* the number of entries of the saved list that are the idea id
Entries(id) == Cardinality({k \in 1..Len(output[1]) : output[1][k].idea_id = id})

\* C22 as stated: the saved list has exactly one entry for every idea whose
\* status is accepted, rejected or refined_best_effort.
C22_Original ==
    output # <<>> =>
        \A id \in Ids : objs[id].status \in TerminalStatuses => Entries(id) = 1

\* C22 amended: the saved list has exactly one entry, the idea as it is at the
\* end, for every idea accepted or refined_best_effort, none for a rejected
\* idea, and no other entry.
C22_OneEntryPerKeptIdea ==
    output # <<>> =>
        /\ \A id \in Ids :
              Entries(id) = IF objs[id].status \in {"accepted", "refined_best_effort"} THEN 1 ELSE 0
        /\ \A k \in 1..Len(output[1]) :
              /\ output[1][k].idea_id \in Ids
              /\ output[1][k].idea = objs[output[1][k].idea_id]

\* the run saved a list after its first pass accepted one idea and rejected
\* the other and so ended with both still in the list of the pass
C22_Witness ==
    /\ output # <<>> /\ Len(objs) = 2 /\ Len(ideas) = 2
    /\ objs[1].status = "accepted" /\ objs[2].status = "rejected"
    /\ Len(output[1]) = 1

\* C23 as stated: with score_threshold or drop_threshold missing from the
\* configuration the run fails at startup: it generates no idea and never
\* enters the loop.
C23_Claim ==
    (config.score_threshold = <<>> \/ config.drop_threshold = <<>>)
        => /\ pc \in {"init", "crashed"}
           /\ objs = <<>>
           /\ critiques = <<>>

\* C24: when a pass refines, each idea of the pass has its critique of this
\* pass on its snapshot of this pass and has been classified (decided, or
\* queued for refinement); every critic call adds the critique of the next
\* idea and the filter starts after the last one; every refiner call adds one
\* snapshot to the next queued idea and the pass ends after the last one.
C24_CritiqueBeforeRefine ==
    /\ [](pc = "refine" =>
             /\ Len(critiques) = Len(ideas)
             /\ \A k \in 1..Len(ideas) :
                   /\ History(ideas[k])[loop + 1].critique = <<critiques[k]>>
                   /\ \/ objs[ideas[k]].status \in {"accepted", "rejected"}
                      \/ InList(needs_refinement, ideas[k]))
    /\ [][(pc = "critic" /\ pc' # "crashed") =>
             /\ Len(critiques') = Len(critiques) + 1
             /\ pc' = (IF Len(critiques') = Len(ideas) THEN "filter" ELSE "critic")
             /\ objs' = objs /\ ideas' = ideas]_vars
    /\ [][(pc = "refine" /\ pc' # "crashed") =>
             /\ refined_ideas' = Append(refined_ideas, needs_refinement[idx])
             /\ pc' = (IF refined_ideas' = needs_refinement THEN "loop" ELSE "refine")
             /\ \A id \in Ids :
                   Len(objs'[id].evolution_history) =
                       Len(History(id)) + (IF id = needs_refinement[idx] THEN 1 ELSE 0)
             /\ critiques' = critiques]_vars

\* the second refiner call of a pass is about to start: both ideas were
\* critiqued and queued, and the first has its refined snapshot
C24_Witness ==
    /\ pc = "refine" /\ idx = 2
    /\ Len(ideas) = 2 /\ Len(needs_refinement) = 2
    /\ Len(History(needs_refinement[1])) = loop + 2
    /\ Len(History(needs_refinement[2])) = loop + 1

\* C25: with drop_threshold > score_threshold the filter tests accept first:
\* an idea whose average is at least score_threshold is accepted, also when
\* the average is below drop_threshold, every other idea is rejected, and no
\* idea is queued for refinement or refined.
C25_AcceptBeforeDrop ==
    (drop_threshold > score_threshold) =>
        /\ needs_refinement = <<>>
        /\ \A id \in Ids :
              /\ Len(History(id)) = 1
              /\ AverageAt(id, 1) >= score_threshold => objs[id].status = "accepted"
              /\ (AverageAt(id, 1) >= 0 /\ AverageAt(id, 1) < score_threshold)
                    => objs[id].status = "rejected"

\* an idea whose average is at least score_threshold and below drop_threshold
\* was accepted
C25_Witness ==
    /\ drop_threshold > score_threshold
    /\ \E id \in Ids :
          /\ AverageAt(id, 1) >= score_threshold /\ AverageAt(id, 1) < drop_threshold
          /\ objs[id].status = "accepted"
          /\ InList(accepted_ideas, id)

\* C26: no step changes the content (or the iteration, role and refinement
\* record) of a snapshot that is in a history; a step changes the critique of
\* a snapshot only when the snapshot has none, is the last of its idea and the
\* step is the filter of the pass handling that idea.
C26_SnapshotsAreKept ==
    [][\A id \in Ids : \A k \in 1..Len(History(id)) :
          /\ id <= Len(objs') /\ k <= Len(objs'[id].evolution_history)
          /\ objs'[id].evolution_history[k].content = History(id)[k].content
          /\ objs'[id].evolution_history[k].iteration = History(id)[k].iteration
          /\ objs'[id].evolution_history[k].role = History(id)[k].role
          /\ objs'[id].evolution_history[k].refinement_details = History(id)[k].refinement_details
          /\ objs'[id].evolution_history[k].critique # History(id)[k].critique
                => /\ History(id)[k].critique = <<>>
                   /\ k = Len(History(id)) /\ k = loop + 1
                   /\ pc = "filter" /\ id = ideas[idx]]_vars

\* the second pass attached its critique to the refined snapshot of an idea
\* whose draft carries the critique of the first pass
C26_Witness ==
    \E id \in Ids :
        /\ Len(History(id)) >= 2
        /\ History(id)[1].critique # <<>>
        /\ History(id)[2].critique # <<>>
        /\ History(id)[2].critique # History(id)[1].critique

\* C27: every idea's history begins with a draft snapshot of iteration 0,
\* which has no critique when the first pass begins; every later snapshot has
\* role refined; snapshot k has iteration k - 1; current_iteration is the
\* iteration of the last snapshot; only refined snapshots have a refinement
\* record; and a step leaves a history as it is, apart from the critique of
\* its last snapshot, or appends one snapshot to it.
C27_HistoryInIterationOrder ==
    /\ [](\A id \in Ids :
             /\ Len(History(id)) >= 1
             /\ History(id)[1].role = "draft"
             /\ (pc = "loop" /\ loop = 0) => History(id)[1].critique = <<>>
             /\ \A k \in 1..Len(History(id)) :
                   /\ History(id)[k].iteration = k - 1
                   /\ k > 1 => History(id)[k].role = "refined"
                   /\ History(id)[k].refinement_details # <<>> => History(id)[k].role = "refined"
             /\ objs[id].current_iteration = History(id)[Len(History(id))].iteration)
    /\ [][\A id \in Ids :
             /\ id <= Len(objs')
             /\ Len(objs'[id].evolution_history) \in {Len(History(id)), Len(History(id)) + 1}
             /\ \A k \in 1..(Len(History(id)) - 1) :
                   objs'[id].evolution_history[k] = History(id)[k]]_vars

\* an idea was refined in two passes: draft and two refined snapshots, the
\* refined ones with their refinement records
C27_Witness ==
    \E id \in Ids :
        /\ Len(History(id)) = 3
        /\ objs[id].current_iteration = 2
        /\ History(id)[2].refinement_details # <<>>
        /\ History(id)[3].role = "refined"

\* C28: when the run has ended, an idea that is refined_best_effort after at
\* least one pass has no critique on its last snapshot; every snapshot before
\* the last of any idea has a critique whose average is at least
\* drop_threshold and below score_threshold; the last critique of an accepted
\* idea has an average of at least score_threshold, and that of a rejected
\* idea an average below drop_threshold.
C28_CritiquesMatchStatus ==
    pc = "done" =>
        \A id \in Ids :
            LET last == History(id)[Len(History(id))]
            IN /\ (objs[id].status = "refined_best_effort" /\ loop >= 1) => last.critique = <<>>
               /\ \A k \in 1..(Len(History(id)) - 1) :
                     /\ History(id)[k].critique # <<>>
                     /\ Between(AverageAt(id, k))
               /\ objs[id].status = "accepted"
                     => last.critique # <<>> /\ last.critique[1].average_score >= score_threshold
               /\ objs[id].status = "rejected"
                     => last.critique # <<>> /\ last.critique[1].average_score < drop_threshold

\* the run ended with an idea accepted in its second pass and another
\* refined in both passes and finalized by force
C28_Witness ==
    /\ pc = "done" /\ loop = 2
    /\ \E a, b \in Ids :
          /\ objs[a].status = "accepted" /\ Len(History(a)) = 2
          /\ objs[b].status = "refined_best_effort" /\ Len(History(b)) = 3
          /\ History(b)[3].critique = <<>>

====
